---- MODULE Spec2Model ----
(***************************************************************************)
(* The support chat widget of src/components/SupportChat.tsx (the typed    *)
(* component, lines 30-474) as a state machine: the conversation stage     *)
(* machine, the capture / upload handlers, the network monitoring effect   *)
(* (PerformanceObserver callback and window.fetch wrapper) and the ticket  *)
(* submission.  Every React event handler, and every continuation after an *)
(* await, is one atomic step: the UI thread runs it to completion.         *)
(*                                                                         *)
(* Abstractions: text is a sequence of characters over a small alphabet;   *)
(* a bot message's text is a tag; the text of the input box is the input   *)
(* of handleUserInput; message timestamps, durations and header snapshots  *)
(* are left out; an incident's timestamp is a logical clock that ticks     *)
(* when a submission's outcome has been handled.  The preview modal and    *)
(* the dismiss button of the network issues panel are not modelled.  The   *)
(* page's own calls and the observer's probes are always answered; only    *)
(* the ticket POST can fail in transport.                                  *)
(*                                                                         *)
(* The same file holds a second, untyped SupportChat (lines 477-705); its  *)
(* handlers are the actions with the suffix V2 and SpecV2 is its           *)
(* specification.  SpecApi is the client of src/services/api.tsx: one      *)
(* supportApi call from its invocation to its result.                      *)
(***************************************************************************)
EXTENDS Integers, Sequences, FiniteSets, TLC

\* Bounds of the model.
MaxMessages == 7
MaxIncidents == 2
MaxInFlight == 2
MaxReads == 1

\* ------------------------------------------------------------------ data

\* The route submitTicket posts to.
TicketUrl == "http://localhost:18000/api/support-ticket"
\* Resources the host page fetches on its own.
PageUrls == {"/api/orders"}
Urls == PageUrls \cup {TicketUrl}

\* Outcomes of one HTTP round trip: a response status, or 0 for a transport
\* error (originalFetch rejects).
TransportError == 0
Statuses == {200, 500, TransportError}
\* Outcomes of the page's own calls and of the observer's probes.
PageStatuses == {200, 500}

TicketIds == {"T-100"}

\* Texts the user can type (the value of the input box).
Inputs ==
  { <<>>,
    <<" ">>,
    <<"n", "o">>,
    <<"o", "Y", "e", "s">> }

null == <<"null">>
CapturedImage == <<"data:image/png;capture">>
UploadedImage == <<"data:image/png;upload">>

\* Files the user can pick: only the size decides what the handler does.
FileLimit == 5 * 1024 * 1024
Files == { [size |-> 2048], [size |-> FileLimit], [size |-> FileLimit + 1] }

\* ------------------------------------------------------- string helpers

IsSpaceAny(c) == TRUE
IsSpace(c) == c = " "

RECURSIVE trimStart(_)
trimStart(s) ==
  IF s # <<>> /\ IsSpace(Head(s)) THEN trimStart(Tail(s)) ELSE s

RECURSIVE trimEnd(_)
trimEnd(s) ==
  IF s # <<>> /\ IsSpace(s[Len(s)]) THEN trimEnd(SubSeq(s, 1, Len(s) - 1)) ELSE s

\* String.prototype.trim
trimKeepsSpaces(s) == s
trim(s) == trimEnd(trimStart(s))

LowerChar(c) ==
  CASE c = "Y" -> "y"
    [] c = "E" -> "e"
    [] c = "S" -> "s"
    [] c = "N" -> "n"
    [] c = "O" -> "o"
    [] OTHER -> c

\* String.prototype.toLowerCase
toLowerCaseUnchanged(s) == s
toLowerCase(s) == [i \in 1..Len(s) |-> LowerChar(s[i])]

\* String.prototype.includes
includes(s, sub) ==
  \E i \in 0..(Len(s) - Len(sub)) : SubSeq(s, i + 1, i + Len(sub)) = sub

yes == <<"y", "e", "s">>

\* ------------------------------------------------------------- messages

UserMessageAsBot(text) == [type |-> "bot", content |-> text]
UserMessage(text) == [type |-> "user", content |-> text]
BotMessage(tag) == [type |-> "bot", content |-> <<tag>>]

GreetingMessage == BotMessage("Hello! Please describe the issue")
OfferMessage == BotMessage("Would you like to add a screenshot?")
CapturedMessage == BotMessage("Screenshot captured!")
UploadedMessage == BotMessage("Screenshot uploaded!")
CaptureFailedMessage == BotMessage("Failed to capture screenshot")
TooLargeMessage == BotMessage("File is too large")
RepromptMessage == BotMessage("Would you like to try capturing again?")
SubmitErrorMessage == BotMessage("Sorry, there was an error creating your ticket")
TicketMessage(t) == [type |-> "bot", content |-> <<"Thanks! I've created ticket #", t>>]

\* ------------------------------------------------ services/api.tsx: data

\* The operations of supportApi.
Ops ==
  { "createTicket", "getTicketStatus", "updateTicket", "uploadScreenshot",
    "getNetworkStats", "healthCheck" }

\* navigator.userAgent, by the tokens getBrowserInfo looks for: desktop
\* Chrome, Firefox, Safari, and Chrome on iOS (CriOS/... Safari/..., without
\* Version/).
UserAgents ==
  { {"Chrome/", "Safari/"}, {"Firefox/"}, {"Version/", "Safari/"},
    {"CriOS/", "Safari/"} }

\* A body: absent (undefined), or an object with or without a message.
Undefined == [present |-> FALSE, message |-> ""]
ServerBodies ==
  { [present |-> TRUE, message |-> "ticket not found"],
    [present |-> TRUE, message |-> ""] }

\* What comes back for a request: a response, or none (network error, timeout).
ApiStatuses == {200, 404, 500}
NoResponse == [answered |-> FALSE, status |-> TransportError, data |-> Undefined]
Replies ==
  [answered : {TRUE}, status : ApiStatuses, data : ServerBodies] \cup {NoResponse}

\* new APIError(message, status, data)
APIError(message, status, data) ==
  [message |-> message, status |-> status, data |-> data]
NoError == APIError("", TransportError, Undefined)

\* No supportApi call is under way.  (The component posts with fetch and
\* never calls supportApi.)
NoCall ==
  [phase |-> "idle", op |-> "none", ua |-> {}, reply |-> NoResponse,
   value |-> Undefined, error |-> NoError]

\* ---------------------------------------------------------------- state

VARIABLES
  messages,               \* useState<Message[]>
  isCapturing,            \* useState(false): a capture is awaiting the platform
  showScreenshotOptions,  \* useState(false): the capture/upload affordance
  screenshot,             \* useState<string | null>
  stage,                  \* useState('greeting')
  issueDescription,       \* useState('')
  failedRequests,         \* useState<NetworkRequest[]>: the incident list
  reads,                  \* FileReader reads started and not yet settled
  inFlight,               \* the payloads of the submitTicket calls awaiting fetch
  probes,                 \* URLs the PerformanceObserver is probing
  clock,                  \* logical time: submissions whose outcome was handled
  apiCall                 \* services/api.tsx: the supportApi call under way

vars ==
  << messages, isCapturing, showScreenshotOptions, screenshot, stage,
     issueDescription, failedRequests, reads, inFlight, probes, clock, apiCall >>

Init ==
  /\ messages = << GreetingMessage >>
  /\ isCapturing = FALSE
  /\ showScreenshotOptions = FALSE
  /\ screenshot = null
  /\ stage = "greeting"
  /\ issueDescription = <<>>
  /\ failedRequests = <<>>
  /\ reads = 0
  /\ inFlight = <<>>
  /\ probes = {}
  /\ clock = 0
  /\ apiCall = NoCall

\* ----------------------------------------------------- network observer

ErrorText(status) == IF status = TransportError THEN "Failed to fetch" ELSE "none"

Incident(url, method, status) ==
  [url |-> url, method |-> method, status |-> status, timestamp |-> clock,
   error |-> ErrorText(status)]

\* What the window.fetch wrapper appends when the wrapped call settles.
WrapperRecordsServerErrorsOnly(url, method, status) ==
  IF status >= 500
    THEN << Incident(url, method, status) >>
    ELSE <<>>

WrapperRecords(url, method, status) ==
  IF status >= 400 \/ status = TransportError
    THEN << Incident(url, method, status) >>
    ELSE <<>>

\* What the PerformanceObserver callback appends when its probe settles.
ObserverRecords(url, status) ==
  IF status = TransportError
    THEN << Incident(url, "Unknown", TransportError) >>
    ELSE IF status >= 400
      THEN << Incident(url, "cors", status) >>
      ELSE <<>>

\* A completed fetch yields a resource-timing entry, which the observer
\* answers with a probe of the same URL.  A fetch that failed in transport
\* yields an entry on some platforms only.
ProbesAfter(url, status, entry) ==
  IF status # TransportError \/ entry THEN probes \cup {url} ELSE probes

\* The host page calls window.fetch(url) and the call is answered.
PageFetch(url, status) ==
  LET recorded == WrapperRecords(url, "GET", status) IN
  /\ Len(failedRequests) + Len(recorded) <= MaxIncidents
  /\ failedRequests' = failedRequests \o recorded
  /\ probes' = ProbesAfter(url, status, TRUE)
  /\ UNCHANGED << messages, isCapturing, showScreenshotOptions, screenshot, stage,
                  issueDescription, reads, inFlight, clock, apiCall >>

\* The observer's probe fetch(entry.name, {method: 'POST'}) is answered: it
\* went through the wrapper, and then the callback inspects the response
\* itself.  The probe is a resource too, so the URL is probed again.
ProbeSettle(url, status) ==
  LET recorded == WrapperRecords(url, "POST", status) \o ObserverRecords(url, status) IN
  /\ url \in probes
  /\ Len(failedRequests) + Len(recorded) <= MaxIncidents
  /\ failedRequests' = failedRequests \o recorded
  /\ probes' = ProbesAfter(url, status, TRUE)
  /\ UNCHANGED << messages, isCapturing, showScreenshotOptions, screenshot, stage,
                  issueDescription, reads, inFlight, clock, apiCall >>

\* ------------------------------------------------------- capture provider

\* captureScreen up to its first await: the Capture Screen button is rendered
\* with the affordance and disabled while a capture runs.
captureScreen ==
  /\ showScreenshotOptions
  /\ ~isCapturing
  /\ isCapturing' = TRUE
  /\ UNCHANGED << messages, showScreenshotOptions, screenshot, stage,
                  issueDescription, failedRequests, reads, inFlight, probes, clock, apiCall >>

\* captureScreen after getDisplayMedia / video.play resolved: try and finally.
captureResolved ==
  /\ isCapturing
  /\ Len(messages) < MaxMessages
  /\ screenshot' = CapturedImage
  /\ messages' = Append(messages, CapturedMessage)
  /\ stage' = "confirm"
  /\ showScreenshotOptions' = FALSE
  /\ isCapturing' = FALSE
  /\ UNCHANGED << issueDescription, failedRequests, reads, inFlight,
                  probes, clock, apiCall >>

\* captureScreen after getDisplayMedia / video.play rejected: catch and finally.
captureRejectedStaysCapturing ==
  /\ isCapturing
  /\ Len(messages) < MaxMessages
  /\ messages' = Append(messages, CaptureFailedMessage)
  /\ isCapturing' = TRUE
  /\ UNCHANGED << showScreenshotOptions, screenshot, stage,
                  issueDescription, failedRequests, reads, inFlight, probes, clock, apiCall >>

captureRejected ==
  /\ isCapturing
  /\ Len(messages) < MaxMessages
  /\ messages' = Append(messages, CaptureFailedMessage)
  /\ isCapturing' = FALSE
  /\ UNCHANGED << showScreenshotOptions, screenshot, stage,
                  issueDescription, failedRequests, reads, inFlight, probes, clock, apiCall >>

\* onChange of the file input, which is rendered with the affordance.
handleFileUpload(file) ==
  /\ showScreenshotOptions
  /\ IF file.size > FileLimit
       THEN /\ Len(messages) < MaxMessages
            /\ messages' = Append(messages, TooLargeMessage)
            /\ reads' = reads
       ELSE /\ reads < MaxReads
            /\ reads' = reads + 1
            /\ messages' = messages
  /\ UNCHANGED << isCapturing, showScreenshotOptions, screenshot, stage,
                  issueDescription, failedRequests, inFlight, probes, clock, apiCall >>

\* reader.onload
readerOnloadReplaces ==
  /\ reads > 0
  /\ Len(messages) < MaxMessages
  /\ reads' = reads - 1
  /\ screenshot' = UploadedImage
  /\ messages' = << UploadedMessage >>
  /\ stage' = "confirm"
  /\ showScreenshotOptions' = FALSE
  /\ UNCHANGED << isCapturing, issueDescription, failedRequests,
                  inFlight, probes, clock, apiCall >>

readerOnload ==
  /\ reads > 0
  /\ Len(messages) < MaxMessages
  /\ reads' = reads - 1
  /\ screenshot' = UploadedImage
  /\ messages' = Append(messages, UploadedMessage)
  /\ stage' = "confirm"
  /\ showScreenshotOptions' = FALSE
  /\ UNCHANGED << isCapturing, issueDescription, failedRequests,
                  inFlight, probes, clock, apiCall >>

\* The read fails: the reader has no onerror handler, nothing runs.
readerError ==
  /\ reads > 0
  /\ reads' = reads - 1
  /\ UNCHANGED << messages, isCapturing, showScreenshotOptions,
                  screenshot, stage, issueDescription, failedRequests, inFlight,
                  probes, clock, apiCall >>

\* The delete button of the screenshot preview.
deleteScreenshotClearsDescription ==
  /\ screenshot # null
  /\ screenshot' = null
  /\ showScreenshotOptions' = TRUE
  /\ issueDescription' = <<>>
  /\ UNCHANGED << messages, isCapturing, stage,
                  failedRequests, reads, inFlight, probes, clock, apiCall >>

deleteScreenshot ==
  /\ screenshot # null
  /\ screenshot' = null
  /\ showScreenshotOptions' = TRUE
  /\ UNCHANGED << messages, isCapturing, stage, issueDescription,
                  failedRequests, reads, inFlight, probes, clock, apiCall >>

\* ---------------------------------------------------- ticket submission

IsOk(status) == status >= 200 /\ status <= 299

\* failedRequests.map(...) of the payload: url, status, timestamp, error.
PayloadIncident(req) ==
  [url |-> req.url, status |-> req.status, timestamp |-> req.timestamp,
   error |-> req.error]

\* The payload submitTicket builds from the state it closes over.
PayloadWithoutScreenshot ==
  [description |-> issueDescription,
   screenshot |-> null,
   failedRequests |-> [i \in 1..Len(failedRequests) |-> PayloadIncident(failedRequests[i])],
   timestamp |-> clock]

Payload ==
  [description |-> issueDescription,
   screenshot |-> screenshot,
   failedRequests |-> [i \in 1..Len(failedRequests) |-> PayloadIncident(failedRequests[i])],
   timestamp |-> clock]

Remove(seq, i) == SubSeq(seq, 1, i - 1) \o SubSeq(seq, i + 1, Len(seq))

\* submitTicket up to the await of fetch: a no-op without a description,
\* else the payload is built and posted.
submitTicketUnguarded ==
  /\ Len(inFlight) < MaxInFlight
  /\ inFlight' = Append(inFlight, Payload)

submitTicket ==
  IF issueDescription = <<>>
    THEN inFlight' = inFlight
    ELSE /\ Len(inFlight) < MaxInFlight
         /\ inFlight' = Append(inFlight, Payload)

\* The state changes of submitTicket's success path.
ResetKeepsAttachment ==
  /\ stage' = "greeting"
  /\ issueDescription' = <<>>
  /\ screenshot' = screenshot
  /\ showScreenshotOptions' = FALSE
  /\ failedRequests' = <<>>

ResetAfterSuccess ==
  /\ stage' = "greeting"
  /\ issueDescription' = <<>>
  /\ screenshot' = null
  /\ showScreenshotOptions' = FALSE
  /\ failedRequests' = <<>>

\* ------------------------------------------------ conversation machine

SaysYes(text) == includes(toLowerCase(text), yes)

\* handleUserInput, from the Send button or the Enter key, with `text` in the
\* input box (inputText).  The box is emptied afterwards (setInputText('')),
\* which no other handler reads.
handleUserInput(text) ==
  LET echoed == Append(messages, UserMessage(text)) IN
  IF trim(text) = <<>>
    THEN UNCHANGED << messages, isCapturing, showScreenshotOptions, screenshot,
                         stage, issueDescription, failedRequests, reads, inFlight,
                         probes, clock, apiCall >>
    ELSE
      CASE stage = "greeting" ->
             /\ Len(messages) + 2 <= MaxMessages
             /\ issueDescription' = text
             /\ messages' = Append(echoed, OfferMessage)
             /\ stage' = "screenshot"
             /\ showScreenshotOptions' = TRUE
             /\ UNCHANGED << isCapturing, screenshot, failedRequests, reads, inFlight,
                             probes, clock, apiCall >>
        [] stage = "screenshot" ->
             /\ Len(messages) + 1 <= MaxMessages
             /\ messages' = echoed
             /\ UNCHANGED << isCapturing, showScreenshotOptions, screenshot, stage,
                             issueDescription, failedRequests, reads, inFlight,
                             probes, clock, apiCall >>
        [] stage = "confirm" /\ SaysYes(text) ->
             /\ Len(messages) + 1 <= MaxMessages
             /\ messages' = echoed
             /\ submitTicket
             /\ UNCHANGED << isCapturing, showScreenshotOptions, screenshot, stage,
                             issueDescription, failedRequests, reads, probes, clock, apiCall >>
        [] stage = "confirm" /\ ~SaysYes(text) ->
             /\ Len(messages) + 2 <= MaxMessages
             /\ messages' = Append(echoed, RepromptMessage)
             /\ stage' = "screenshot"
             /\ showScreenshotOptions' = TRUE
             /\ UNCHANGED << isCapturing, screenshot, issueDescription, failedRequests,
                             reads, inFlight, probes, clock, apiCall >>

\* The POST of submission i is answered.  The window.fetch wrapper records a
\* status >= 400 and returns the response; submitTicket reads the body and
\* takes its success path, or throws and catches.  (The body read is taken
\* together with the settling of the fetch.)
submitResolved(i, status, ticketId) ==
  LET recorded == WrapperRecords(TicketUrl, "POST", status) IN
  /\ i \in 1..Len(inFlight)
  /\ status # TransportError
  /\ Len(messages) < MaxMessages
  /\ Len(failedRequests) + Len(recorded) <= MaxIncidents
  /\ IF IsOk(status)
       THEN /\ messages' = Append(messages, TicketMessage(ticketId))
            /\ ResetAfterSuccess
       ELSE /\ messages' = Append(messages, SubmitErrorMessage)
            /\ failedRequests' = failedRequests \o recorded
            /\ UNCHANGED << showScreenshotOptions, screenshot, stage, issueDescription >>
  /\ inFlight' = Remove(inFlight, i)
  /\ probes' = ProbesAfter(TicketUrl, status, TRUE)
  /\ clock' = clock + 1
  /\ UNCHANGED << isCapturing, reads, apiCall >>

\* The POST of submission i fails in transport: the wrapper records it with
\* status 0 and rethrows, and submitTicket catches.
submitRejected(i, entry) ==
  LET recorded == WrapperRecords(TicketUrl, "POST", TransportError) IN
  /\ i \in 1..Len(inFlight)
  /\ Len(messages) < MaxMessages
  /\ Len(failedRequests) + Len(recorded) <= MaxIncidents
  /\ messages' = Append(messages, SubmitErrorMessage)
  /\ failedRequests' = failedRequests \o recorded
  /\ inFlight' = Remove(inFlight, i)
  /\ probes' = ProbesAfter(TicketUrl, TransportError, entry)
  /\ clock' = clock + 1
  /\ UNCHANGED << isCapturing, showScreenshotOptions, screenshot, stage,
                  issueDescription, reads, apiCall >>

\* -------------------------------------------------------- specification

Next ==
  \/ \E text \in Inputs : handleUserInput(text)
  \/ captureScreen
  \/ captureResolved
  \/ captureRejected
  \/ \E file \in Files : handleFileUpload(file)
  \/ readerOnload
  \/ readerError
  \/ deleteScreenshot
  \/ \E url \in PageUrls, status \in PageStatuses : PageFetch(url, status)
  \/ \E url \in Urls, status \in PageStatuses : ProbeSettle(url, status)
  \/ \E i \in 1..MaxInFlight, status \in Statuses, ticketId \in TicketIds :
       submitResolved(i, status, ticketId)
  \/ \E i \in 1..MaxInFlight, entry \in BOOLEAN : submitRejected(i, entry)

Spec == Init /\ [][Next]_vars

\* ------------------------------------------ the untyped second component
\* Lines 477-705 hold a second SupportChat: no confirm stage, no ticket
\* submission, no network monitoring.  Its handlers have the suffix V2.

CapturedMessageV2 == BotMessage("Screenshot captured! Type yes to submit")

\* handleUserInput of the second component: it acts in stage greeting only.
handleUserInputV2(text) ==
  LET echoed == Append(messages, UserMessage(text)) IN
  IF trim(text) = <<>>
    THEN UNCHANGED vars
    ELSE IF stage = "greeting"
      THEN /\ Len(messages) + 2 <= MaxMessages
           /\ issueDescription' = text
           /\ messages' = Append(echoed, OfferMessage)
           /\ stage' = "screenshot"
           /\ showScreenshotOptions' = TRUE
           /\ UNCHANGED << isCapturing, screenshot, failedRequests, reads, inFlight,
                           probes, clock, apiCall >>
      ELSE /\ Len(messages) + 1 <= MaxMessages
           /\ messages' = echoed
           /\ UNCHANGED << isCapturing, showScreenshotOptions, screenshot, stage,
                           issueDescription, failedRequests, reads, inFlight,
                           probes, clock, apiCall >>

\* captureScreen of the second component up to its first await.
captureScreenV2 ==
  /\ showScreenshotOptions
  /\ ~isCapturing
  /\ isCapturing' = TRUE
  /\ UNCHANGED << messages, showScreenshotOptions, screenshot, stage,
                  issueDescription, failedRequests, reads, inFlight, probes, clock,
                  apiCall >>

\* Its try and finally: the stage is not touched.
captureResolvedV2 ==
  /\ isCapturing
  /\ Len(messages) < MaxMessages
  /\ screenshot' = CapturedImage
  /\ showScreenshotOptions' = FALSE
  /\ messages' = Append(messages, CapturedMessageV2)
  /\ isCapturing' = FALSE
  /\ UNCHANGED << stage, issueDescription, failedRequests, reads, inFlight,
                  probes, clock, apiCall >>

\* Its catch and finally.
captureRejectedV2 ==
  /\ isCapturing
  /\ Len(messages) < MaxMessages
  /\ messages' = Append(messages, CaptureFailedMessage)
  /\ isCapturing' = FALSE
  /\ UNCHANGED << showScreenshotOptions, screenshot, stage,
                  issueDescription, failedRequests, reads, inFlight, probes, clock,
                  apiCall >>

\* onChange of the second component's file input: no size check.
fileOnChangeV2(file) ==
  /\ showScreenshotOptions
  /\ reads < MaxReads
  /\ reads' = reads + 1
  /\ UNCHANGED << messages, isCapturing, showScreenshotOptions, screenshot, stage,
                  issueDescription, failedRequests, inFlight, probes, clock, apiCall >>

\* reader.onload of the second component: setScreenshot only.
readerOnloadV2 ==
  /\ reads > 0
  /\ reads' = reads - 1
  /\ screenshot' = UploadedImage
  /\ UNCHANGED << messages, isCapturing, showScreenshotOptions, stage,
                  issueDescription, failedRequests, inFlight, probes, clock, apiCall >>

\* The read fails: no onerror handler here either.
readerErrorV2 ==
  /\ reads > 0
  /\ reads' = reads - 1
  /\ UNCHANGED << messages, isCapturing, showScreenshotOptions,
                  screenshot, stage, issueDescription, failedRequests, inFlight,
                  probes, clock, apiCall >>

\* The delete button of the second component's preview: setScreenshot(null).
deleteScreenshotV2 ==
  /\ screenshot # null
  /\ screenshot' = null
  /\ UNCHANGED << messages, isCapturing, showScreenshotOptions, stage,
                  issueDescription, failedRequests, reads, inFlight, probes, clock,
                  apiCall >>

NextV2 ==
  \/ \E text \in Inputs : handleUserInputV2(text)
  \/ captureScreenV2
  \/ captureResolvedV2
  \/ captureRejectedV2
  \/ \E file \in Files : fileOnChangeV2(file)
  \/ readerOnloadV2
  \/ readerErrorV2
  \/ deleteScreenshotV2

SpecV2 == Init /\ [][NextV2]_vars

\* ------------------------------------------- services/api.tsx: supportApi

chatVars ==
  << messages, isCapturing, showScreenshotOptions, screenshot, stage,
     issueDescription, failedRequests, reads, inFlight, probes, clock >>

\* getBrowserInfo throws a TypeError when the Safari branch is taken and
\* ua.split("Version/")[1] is undefined.
getBrowserInfoThrows(ua) ==
  /\ "Firefox/" \notin ua
  /\ "Chrome/" \notin ua
  /\ "Safari/" \in ua
  /\ "Version/" \notin ua

\* axios' default validateStatus.
validateStatus(status) == status >= 200 /\ status < 300

\* The rejected handler of the response interceptor.
responseRejected(reply, message) ==
  IF reply.answered
    THEN APIError(IF reply.data.message # "" THEN reply.data.message ELSE "Server error",
                  reply.status, reply.data)
    ELSE APIError(message, TransportError, Undefined)

\* The message of the APIError an operation throws for any other error.
FallbackMessage(op) ==
  CASE op = "createTicket" -> "Failed to create ticket"
    [] op = "getTicketStatus" -> "Failed to get ticket status"
    [] op = "updateTicket" -> "Failed to update ticket"
    [] op = "uploadScreenshot" -> "Failed to upload screenshot"
    [] op = "getNetworkStats" -> "Failed to get network stats"
    [] OTHER -> "Health check failed"

Thrown(op, ua, reply, error) ==
  [phase |-> "thrown", op |-> op, ua |-> ua, reply |-> reply,
   value |-> Undefined, error |-> error]

Returned(op, ua, reply, value) ==
  [phase |-> "returned", op |-> op, ua |-> ua, reply |-> reply,
   value |-> value, error |-> NoError]

\* supportApi.<op> up to the await of the request.  createTicket calls
\* getBrowserInfo itself while building the body, inside its try; every
\* request passes the request interceptor, which calls it too, and what the
\* interceptor throws reaches the rejected handler of the response interceptor.
apiInvoke(op, ua) ==
  /\ apiCall.phase = "idle"
  /\ apiCall' =
       IF getBrowserInfoThrows(ua)
         THEN IF op = "createTicket"
           THEN Thrown(op, ua, NoResponse, APIError(FallbackMessage(op), 500, Undefined))
           ELSE Thrown(op, ua, NoResponse, responseRejected(NoResponse, "TypeError"))
         ELSE [NoCall EXCEPT !.phase = "pending", !.op = op, !.ua = ua]
  /\ UNCHANGED chatVars

\* The request settles: the operation returns response.data (uploadScreenshot
\* returns nothing) or rethrows the APIError of the response interceptor.
apiSettle(reply) ==
  /\ apiCall.phase = "pending"
  /\ apiCall' =
       IF reply.answered /\ validateStatus(reply.status)
         THEN Returned(apiCall.op, apiCall.ua, reply,
                       IF apiCall.op = "uploadScreenshot" THEN Undefined ELSE reply.data)
         ELSE Thrown(apiCall.op, apiCall.ua, reply, responseRejected(reply, "Network Error"))
  /\ UNCHANGED chatVars

\* The caller has taken the result.
apiDone ==
  /\ apiCall.phase \in {"returned", "thrown"}
  /\ apiCall' = NoCall
  /\ UNCHANGED chatVars

NextApi ==
  \/ \E op \in Ops, ua \in UserAgents : apiInvoke(op, ua)
  \/ \E reply \in Replies : apiSettle(reply)
  \/ apiDone

SpecApi == Init /\ [][NextApi]_vars

\* --------------------------------------------------------------- claims

Last(seq) == seq[Len(seq)]

\* A step that handles the outcome of a submission: its payload leaves inFlight.
OutcomeHandled == Len(inFlight') < Len(inFlight)

\* The lower-cased text contains "yes", said without the model's helpers.
ContainsYes(text) ==
  \E i \in 1..(Len(text) - 2) :
    /\ text[i] \in {"y", "Y"}
    /\ text[i + 1] \in {"e", "E"}
    /\ text[i + 2] \in {"s", "S"}

\* The text has a character that is not white space.
NonBlank(text) == \E i \in 1..Len(text) : text[i] # " "

\* C1: after any submission that was posted, whether it succeeded or failed
\* (status not 2xx, or transport error), the stage is greeting, the issue
\* description is empty and the attachment is absent.
C1_ResetAfterEveryOutcome ==
  [][OutcomeHandled =>
       /\ stage' = "greeting"
       /\ issueDescription' = <<>>
       /\ screenshot' = null]_vars

\* C2: when the backend answers a submission with HTTP 500, exactly one bot
\* error message is appended and the incident list is empty once the failure
\* has been handled.
C2_Http500OneErrorNoIncidents ==
  [][\A i \in 1..MaxInFlight, t \in TicketIds :
       submitResolved(i, 500, t) =>
         /\ messages' = Append(messages, SubmitErrorMessage)
         /\ failedRequests' = <<>>]_vars

\* C3: the stage changes only along greeting->screenshot, screenshot->confirm,
\* confirm->screenshot and confirm->greeting, under any interleaving of user
\* inputs with capture, file-read and submission completions.
StageEdges ==
  { <<"greeting", "screenshot">>, <<"screenshot", "confirm">>,
    <<"confirm", "screenshot">>, <<"confirm", "greeting">> }

C3_StageEdgesOnly ==
  [][stage' # stage => <<stage, stage'>> \in StageEdges]_vars

\* C4: the URLs of the entries of the incident list are pairwise distinct.
C4_IncidentUrlsDistinct ==
  \A i, j \in 1..Len(failedRequests) :
    i # j => failedRequests[i].url # failedRequests[j].url

\* C5: no entry of the incident list has the URL of the ticket-submission
\* route, also after a submission that failed.
C5_TicketUrlNeverRecorded ==
  \A i \in 1..Len(failedRequests) : failedRequests[i].url # TicketUrl

\* C6: the incident list is frozen while a submission is in flight: no step
\* between the building of a payload and the handling of that submission's
\* outcome appends an incident.
C6_IncidentsFrozenInFlight ==
  [][(inFlight # <<>> /\ ~OutcomeHandled) =>
       Len(failedRequests') <= Len(failedRequests)]_vars

\* C7: the failedRequests of a submission's payload holds only incidents
\* recorded after the previous attempt completed: none is older than the
\* completion that precedes the building of the payload.
C7_PayloadIncidentsFresh ==
  \A i \in 1..Len(inFlight) :
    \A k \in 1..Len(inFlight[i].failedRequests) :
      inFlight[i].failedRequests[k].timestamp >= inFlight[i].timestamp

\* C8: at most one submission is in flight: while one is, no user input
\* starts a second.
C8_AtMostOneInFlight == Len(inFlight) <= 1

\* C9: handling a successful submission leaves the stage greeting, the issue
\* description empty, the attachment absent, the incident list empty and the
\* capture/upload affordance hidden.
C9_SuccessResetsAll ==
  [][\A i \in 1..MaxInFlight, t \in TicketIds :
       submitResolved(i, 200, t) =>
         /\ stage' = "greeting"
         /\ issueDescription' = <<>>
         /\ screenshot' = null
         /\ failedRequests' = <<>>
         /\ ~showScreenshotOptions']_vars

\* C9 witness: the ticket message is the last one: a success was just handled.
C9_Witness ==
  /\ Last(messages) = TicketMessage("T-100")
  /\ stage = "greeting"
  /\ screenshot = null
  /\ failedRequests = <<>>
  /\ inFlight = <<>>

\* What C10 asks of handleUserInput(text) in stage confirm: with "yes" in the
\* lower-cased text one submitTicket call and the stage kept, otherwise the
\* stage screenshot, the re-prompt, the affordance and no submitTicket call.
ConfirmOutcome(text) ==
  IF ContainsYes(text)
    THEN /\ stage' = stage
         /\ messages' = Append(messages, UserMessage(text))
         /\ inFlight' = IF issueDescription = <<>> THEN inFlight
                                                   ELSE Append(inFlight, Payload)
    ELSE /\ stage' = "screenshot"
         /\ messages' = messages \o << UserMessage(text), RepromptMessage >>
         /\ showScreenshotOptions'
         /\ inFlight' = inFlight

\* C10 as stated: in stage confirm every non-empty input has that outcome.
C10_EveryNonEmptyInput ==
  \A text \in Inputs :
    (stage = "confirm" /\ text # <<>>) =>
      ~ENABLED (handleUserInput(text) /\ ~ConfirmOutcome(text))

\* C10 as amended: in stage confirm every input that is non-empty after
\* trimming has that outcome (a white-space input is ignored).
C10_EveryNonBlankInput ==
  \A text \in Inputs :
    (stage = "confirm" /\ NonBlank(text)) =>
      ~ENABLED (handleUserInput(text) /\ ~ConfirmOutcome(text))

\* C10 witness: a mixed-case "yes" in stage confirm has posted a ticket.
C10_Witness ==
  /\ stage = "confirm"
  /\ Last(messages) = UserMessage(<<"o", "Y", "e", "s">>)
  /\ Len(inFlight) = 1
  /\ Last(inFlight).description # <<>>

\* ---------------------------------------------------- claims C11 - C20

\* messages' is messages with exactly one bot message appended.
OneBotMessageAppended ==
  /\ Len(messages') = Len(messages) + 1
  /\ SubSeq(messages', 1, Len(messages)) = messages
  /\ Last(messages').type = "bot"

\* A capture, or a file read, completes with an image (either component).
CaptureSucceeds == captureResolved \/ captureResolvedV2
UploadSucceeds == readerOnload \/ readerOnloadV2

\* C11: a successful screen capture or file upload always sets the stage to
\* confirm, whatever the stage was, stores the image as the attachment,
\* appends one confirmation bot message and hides the capture/upload
\* affordance.
C11_SuccessGoesToConfirm ==
  [][(CaptureSucceeds \/ UploadSucceeds) =>
       /\ stage' = "confirm"
       /\ screenshot' \in {CapturedImage, UploadedImage}
       /\ OneBotMessageAppended
       /\ ~showScreenshotOptions']_vars

\* What C12 asks of handleUserInput(text) in stage greeting.
GreetingOutcome(text) ==
  /\ issueDescription' = text
  /\ stage' = "screenshot"
  /\ showScreenshotOptions'
  /\ messages' = messages \o << UserMessage(text), OfferMessage >>

\* C12: for every input that is non-empty after trimming, handleUserInput in
\* stage greeting stores the input as the issue description, sets the stage
\* to screenshot, shows the affordance and appends the bot prompt offering
\* capture or upload (the handler of either component).
C12_GreetingStoresDescription ==
  \A text \in Inputs :
    (stage = "greeting" /\ NonBlank(text)) =>
      /\ ~ENABLED (handleUserInput(text) /\ ~GreetingOutcome(text))
      /\ ~ENABLED (handleUserInputV2(text) /\ ~GreetingOutcome(text))

\* C12 witness: the first description has been stored and the offer made.
C12_Witness ==
  /\ messages = << GreetingMessage, UserMessage(<<"n", "o">>), OfferMessage >>
  /\ issueDescription = <<"n", "o">>
  /\ stage = "screenshot"
  /\ showScreenshotOptions

\* C13: empty or white-space-only input is a no-op at every stage:
\* handleUserInput appends no message and leaves stage, description,
\* attachment, incident list and affordance unchanged.
C13_BlankInputIsNoOp ==
  \A text \in Inputs :
    ~NonBlank(text) =>
      ~ENABLED (/\ handleUserInput(text)
                /\ ~UNCHANGED << messages, stage, issueDescription, screenshot,
                                 failedRequests, showScreenshotOptions >>)

\* C13 witness: a white-space input is handled in stage confirm, with an
\* attachment and an incident present, and changes nothing.
C13_Witness ==
  /\ stage = "confirm"
  /\ screenshot # null
  /\ failedRequests # <<>>
  /\ Len(messages) < MaxMessages
  /\ ENABLED (handleUserInput(<<" ">>) /\ UNCHANGED vars)

\* The states of the end-to-end scenario of C14, for the description d.
Affirmative == <<"o", "Y", "e", "s">>
SmallFile == [size |-> 2048]

Quiet == inFlight = <<>> /\ ~isCapturing

AtStart ==
  /\ messages = << GreetingMessage >>
  /\ stage = "greeting" /\ issueDescription = <<>> /\ screenshot = null
  /\ reads = 0 /\ Quiet

Described(d) ==
  /\ messages = << GreetingMessage, UserMessage(d), OfferMessage >>
  /\ stage = "screenshot" /\ issueDescription = d /\ screenshot = null
  /\ reads = 0 /\ Quiet

Reading(d) ==
  /\ messages = << GreetingMessage, UserMessage(d), OfferMessage >>
  /\ stage = "screenshot" /\ issueDescription = d /\ screenshot = null
  /\ reads = 1 /\ Quiet

Uploaded(d) ==
  /\ messages = << GreetingMessage, UserMessage(d), OfferMessage, UploadedMessage >>
  /\ stage = "confirm" /\ issueDescription = d /\ screenshot = UploadedImage
  /\ reads = 0 /\ Quiet

Posted(d) ==
  /\ messages = << GreetingMessage, UserMessage(d), OfferMessage, UploadedMessage,
                   UserMessage(Affirmative) >>
  /\ stage = "confirm" /\ issueDescription = d /\ screenshot = UploadedImage
  /\ reads = 0 /\ ~isCapturing
  /\ Len(inFlight) = 1
  /\ inFlight[1].description = d
  /\ inFlight[1].screenshot = UploadedImage

Done(d, t) ==
  /\ messages = << GreetingMessage, UserMessage(d), OfferMessage, UploadedMessage,
                   UserMessage(Affirmative), TicketMessage(t) >>
  /\ stage = "greeting" /\ issueDescription = <<>> /\ screenshot = null
  /\ failedRequests = <<>>
  /\ reads = 0 /\ Quiet

\* C14: end to end from the initial state: a non-empty description d, then a
\* successful upload of an image, then an affirmative input, posts exactly
\* one payload with description d and that image; when the server returns
\* ticket id t the last bot message holds t and the state is fully reset.
C14_EndToEnd ==
  \A d \in Inputs, t \in TicketIds :
    NonBlank(d) =>
      /\ AtStart => ~ENABLED (handleUserInput(d) /\ ~Described(d)')
      /\ Described(d) => ~ENABLED (handleFileUpload(SmallFile) /\ ~Reading(d)')
      /\ Reading(d) => ~ENABLED (readerOnload /\ ~Uploaded(d)')
      /\ Uploaded(d) => ~ENABLED (handleUserInput(Affirmative) /\ ~Posted(d)')
      /\ Posted(d) => ~ENABLED (submitResolved(1, 200, t) /\ ~Done(d, t)')

\* C14 witness: the scenario has run to its end.
C14_Witness == Done(<<"n", "o">>, "T-100")

\* C15: a selected file larger than 5 MiB is rejected: one warning bot message
\* is appended, no read is started, stage and attachment are unchanged; a
\* file of 5 MiB or less is not rejected (the file input of either component).
C15_OversizeRejected ==
  [][\A file \in Files :
       (handleFileUpload(file) \/ fileOnChangeV2(file)) =>
         IF file.size > FileLimit
           THEN /\ OneBotMessageAppended
                /\ reads' = reads
                /\ stage' = stage
                /\ screenshot' = screenshot
           ELSE /\ reads' = reads + 1
                /\ messages' = messages]_vars

\* The failure events of C16: a capture fails, an oversize file is picked, a
\* file read fails, a submission fails.
CaptureFails == captureRejected
FileTooLarge == \E file \in Files : file.size > FileLimit /\ handleFileUpload(file)
FileReadFails == readerError
SubmissionFails ==
  \/ \E i \in 1..MaxInFlight, status \in Statuses \ {200}, t \in TicketIds :
       submitResolved(i, status, t)
  \/ \E i \in 1..MaxInFlight, entry \in BOOLEAN : submitRejected(i, entry)

\* C16: every failure event of these kinds appends a user-visible bot message,
\* and none is retried: the step starts no capture, no file read and no POST.
C16_EveryFailureReported ==
  [][(CaptureFails \/ FileTooLarge \/ FileReadFails \/ SubmissionFails) =>
       /\ OneBotMessageAppended
       /\ (isCapturing' => isCapturing)
       /\ reads' <= reads
       /\ Len(inFlight') <= Len(inFlight)]_vars

\* C17: a failed screen capture appends exactly one bot message inviting
\* retry, leaves stage, attachment, description and affordance unchanged and
\* sets isCapturing back to false.
C17_CaptureFailureKeepsState ==
  isCapturing =>
    ~ENABLED (/\ captureRejected
              /\ ~(/\ messages' = Append(messages, CaptureFailedMessage)
                   /\ UNCHANGED << stage, screenshot, issueDescription,
                                   showScreenshotOptions >>
                   /\ ~isCapturing'))

\* C17 witness: a capture has just failed in stage screenshot.
C17_Witness ==
  /\ Last(messages) = CaptureFailedMessage
  /\ ~isCapturing
  /\ stage = "screenshot"
  /\ showScreenshotOptions
  /\ screenshot = null
  /\ issueDescription # <<>>

C19_BodyOrTypedError ==
  /\ apiCall.phase = "returned" =>
       /\ apiCall.reply.answered
       /\ apiCall.value = apiCall.reply.data
  /\ apiCall.phase = "thrown" =>
       IF apiCall.reply.answered
         THEN /\ apiCall.error.status = apiCall.reply.status
              /\ \/ apiCall.error.message = apiCall.reply.data.message
                 \/ apiCall.error.data = apiCall.reply.data
         ELSE apiCall.error.status = 0

\* C20: the message list is append-only: every step leaves the previous list
\* as a prefix of the new one.
C20_MessagesAppendOnly ==
  [][/\ Len(messages') >= Len(messages)
     /\ SubSeq(messages', 1, Len(messages)) = messages]_vars

\* C20 witness: input, capture, upload and a submission outcome have all
\* appended to the list that began with the greeting.
C20_Witness ==
  /\ messages[1] = GreetingMessage
  /\ \E i \in 1..Len(messages) : messages[i] = CapturedMessage
  /\ \E i \in 1..Len(messages) : messages[i] = UploadedMessage
  /\ \E i \in 1..Len(messages) : messages[i] = UserMessage(Affirmative)
  /\ Last(messages) = SubmitErrorMessage

\* ---------------------------------------------------- claims C21 - C26

\* A step of handleUserInput in stage greeting that stores its input.
DescriptionSet ==
  /\ stage = "greeting"
  /\ \E text \in Inputs : NonBlank(text) /\ handleUserInput(text) /\ issueDescription' = text

\* C21: the issue description changes only in two ways: a non-empty input in
\* stage greeting sets it, and a submission outcome clears it; text in stage
\* screenshot, a rejection in stage confirm, a capture, an upload, an
\* oversize-file rejection and deleting the attachment leave it unchanged.
C21_DescriptionChangesOnlyTwoWays ==
  [][issueDescription' # issueDescription =>
       \/ DescriptionSet
       \/ OutcomeHandled /\ issueDescription' = <<>>]_vars

\* C21 witness: after an oversize file, a capture, a rejection in confirm and
\* the deletion of the attachment the description is the one first entered.
C21_Witness ==
  /\ messages = << GreetingMessage, UserMessage(<<"n", "o">>), OfferMessage,
                   TooLargeMessage, CapturedMessage, UserMessage(<<"n", "o">>),
                   RepromptMessage >>
  /\ screenshot = null
  /\ stage = "screenshot"
  /\ issueDescription = <<"n", "o">>

\* The incident the wrapper is to record for a call of url that settled with
\* status (0: the call threw).
ExpectedIncident(url, method, status) ==
  [url |-> url, method |-> method, status |-> status, timestamp |-> clock,
   error |-> IF status = 0 THEN "Failed to fetch" ELSE "none"]

ExpectedRecords(url, method, status) ==
  IF status >= 400 \/ status = 0
    THEN << ExpectedIncident(url, method, status) >>
    ELSE <<>>

\* Statuses on both sides of the wrapper's threshold.
ProbedStatuses == {0, 200, 204, 301, 304, 399, 400, 404, 499, 500, 503}

\* C22: the window.fetch wrapper appends exactly one incident for a call if
\* and only if the response status is >= 400 or the call throws (status 0 and
\* the error text), nothing for a status below 400, and is transparent: the
\* caller gets the original response or the original error.
C22_WrapperRecordsFailuresOnly ==
  /\ \A url \in Urls, status \in ProbedStatuses :
       WrapperRecords(url, "GET", status) = ExpectedRecords(url, "GET", status)
  /\ \A url \in PageUrls, status \in PageStatuses :
       ~ENABLED (/\ PageFetch(url, status)
                 /\ failedRequests' # failedRequests \o ExpectedRecords(url, "GET", status))
  /\ \A i \in 1..Len(inFlight), t \in TicketIds :
       /\ ~ENABLED (/\ submitResolved(i, 500, t)
                    /\ ~(/\ failedRequests' =
                              failedRequests \o ExpectedRecords(TicketUrl, "POST", 500)
                         /\ Last(messages') = SubmitErrorMessage))
       /\ ~ENABLED (/\ submitResolved(i, 200, t)
                    /\ ~(/\ failedRequests' = <<>>
                         /\ Last(messages') = TicketMessage(t)))
  /\ \A i \in 1..Len(inFlight), entry \in BOOLEAN :
       ~ENABLED (/\ submitRejected(i, entry)
                 /\ ~(/\ failedRequests' =
                           failedRequests \o ExpectedRecords(TicketUrl, "POST", 0)
                      /\ Last(messages') = SubmitErrorMessage))

\* C22 witness: the wrapper has recorded a page call answered 500 and then a
\* ticket POST that threw.
C22_Witness ==
  /\ Len(failedRequests) = 2
  /\ failedRequests[1].url \in PageUrls
  /\ failedRequests[1].method = "GET"
  /\ failedRequests[1].status = 500
  /\ failedRequests[2].url = TicketUrl
  /\ failedRequests[2].status = 0
  /\ failedRequests[2].error = "Failed to fetch"
  /\ Last(messages) = SubmitErrorMessage

\* What C23 asks of handleUserInput(text): the old list, then the echo of the
\* input as one user message, then bot messages only.
EchoedFirst(text) ==
  /\ Len(messages') > Len(messages)
  /\ SubSeq(messages', 1, Len(messages)) = messages
  /\ messages'[Len(messages) + 1] = [type |-> "user", content |-> text]
  /\ \A k \in (Len(messages) + 2)..Len(messages') : messages'[k].type = "bot"

\* C23: for every accepted input (non-empty after trimming), at any stage,
\* exactly one user message whose content is that input is appended, before
\* any bot message the same input produces.
C23_EchoBeforeInterpretation ==
  \A text \in Inputs :
    NonBlank(text) => ~ENABLED (handleUserInput(text) /\ ~EchoedFirst(text))

\* C23 witness: free text in stage screenshot has been echoed and nothing else.
C23_Witness ==
  /\ messages = << GreetingMessage, UserMessage(<<"n", "o">>), OfferMessage,
                   UserMessage(Affirmative) >>
  /\ stage = "screenshot"
  /\ inFlight = <<>>

\* C24: the issue description is non-empty whenever the stage is screenshot
\* or confirm, under any interleaving of inputs with late completions.
C24_DescriptionWhenPastGreeting ==
  stage \in {"screenshot", "confirm"} => issueDescription # <<>>

\* C25: the capture/upload affordance is offered only in stage screenshot,
\* also after the delete button of the attachment preview is used.
C25_AffordanceOnlyInScreenshot ==
  showScreenshotOptions => stage = "screenshot"

\* C26: the observer reaches quiescence: a probe issued by the observer does
\* not itself cause a further probe, so after the settling of a probe of a
\* URL no probe of that URL is outstanding.
C26_ProbeCausesNoProbe ==
  [][\A url \in Urls, status \in PageStatuses :
       ProbeSettle(url, status) => url \notin probes']_vars

====
